---- MODULE Spec2Model ----
(***************************************************************************)
(* A model of java/kotlin-extractor/build.py: the script that builds the   *)
(* Kotlin extractor archives.  One run of the script is a sequential       *)
(* pipeline; the state is the command line, the environment (which tools   *)
(* are on the PATH), the position of the script, and the part of the       *)
(* working directory the script reads and writes.                          *)
(*                                                                         *)
(* Representation.                                                         *)
(*  - A version string "major.minor.patch" is the tuple of its fields,     *)
(*    <<major, minor, patch>>; the empty string is <<>>.                   *)
(*  - A file name is <<stem, extension>>.                                  *)
(*  - A file's content is a sequence of lexemes; the import prefix         *)
(*    'import com.intellij' is the two lexemes <<"import ",                *)
(*    "com.intellij">>.                                                    *)
(*  - A directory is a function from names to what they hold.              *)
(***************************************************************************)
EXTENDS Integers, Sequences, FiniteSets, TLC

VARIABLES
    argv,       \* the command line of this run
    env,        \* which external compilers are on the PATH
    src,        \* the base source tree 'src' (read only)
    args,       \* the result of parse_args()
    kotlinc,    \* the result of shutil.which('kotlinc')
    pc,         \* position of the script
    todo,       \* the calls of compile() the script has still to make
    cur,        \* the call of compile() in progress
    srcs,       \* compile()'s local 'srcs'
    archives,   \* the archive files in the working directory
    bdirs,      \* the build directories in the working directory
    exitCode,   \* <<status>> once the process has exited, <<>> while it runs
    stderr,     \* the last diagnostic the process wrote
    log,        \* history: the pipeline steps of this run, in order
    start       \* history: archives and bdirs when the run started

vars == <<argv, env, src, args, kotlinc, pc, todo, cur, srcs, archives,
          bdirs, exitCode, stderr, log, start>>

----------------------------------------------------------------------------
(* Bounds *)

NumVersions == 2    \* number of registered plugin versions
MaxLen == 4         \* longest source file of SpecTransform, in lexemes

----------------------------------------------------------------------------
(* kotlin_plugin_versions: the version registry *)

KnownVersions ==
    << <<1, 5, 10>>, <<1, 6, 0>>, <<1, 6, 20>>, <<1, 7, 0>>, <<1, 7, 20>> >>

many_versions == SubSeq(KnownVersions, 1, NumVersions)

Registered == {many_versions[i] : i \in 1..Len(many_versions)}

\* version strings a user may ask for that the registry does not hold
Unregistered == {<<1, 4, 0>>, <<1, 5, 20>>}

VersionStrings == Registered \cup Unregistered

version_string_to_version(s) == [major |-> s[1], minor |-> s[2], patch |-> s[3]]

lessThanOrEqual(a, b) ==
    \/ a.major < b.major
    \/ a.major = b.major /\ a.minor < b.minor
    \/ a.major = b.major /\ a.minor = b.minor /\ a.patch <= b.patch

toString(v) == <<v.major, v.minor, v.patch>>

many_versions_versions ==
    [i \in 1..Len(many_versions) |-> version_string_to_version(many_versions[i])]

RECURSIVE SortAsc(_)
SortAsc(S) ==
    IF S = {} THEN <<>>
    ELSE LET m == CHOOSE x \in S : \A y \in S : lessThanOrEqual(x, y)
         IN  <<m>> \o SortAsc(S \ {m})

many_versions_versions_asc ==
    SortAsc({many_versions_versions[i] : i \in 1..Len(many_versions_versions)})

----------------------------------------------------------------------------
(* Files and directories *)

EmptyDir == [n \in {} |-> <<>>]

\* a copy that keeps the files already in 'to'
copytree_keep(from, to) ==
    [n \in DOMAIN from \cup DOMAIN to |-> IF n \in DOMAIN to THEN to[n] ELSE from[n]]

\* shutil.copytree(d, include_version_folder, dirs_exist_ok=True)
copytree(from, to) ==
    [n \in DOMAIN from \cup DOMAIN to |-> IF n \in DOMAIN from THEN from[n] ELSE to[n]]

NoName == <<>>

NoTree ==
    [present |-> FALSE, main |-> EmptyDir,
     has_this_version |-> FALSE, this_version |-> EmptyDir,
     has_versions |-> FALSE, versions |-> EmptyDir,
     extractor_name |-> NoName]

NoDir ==
    [exists |-> FALSE, temp_src |-> NoTree, classes |-> FALSE,
     kotlin_args |-> FALSE, java_args |-> FALSE]

\* the folder of a version's overrides: 'v_' + toString().replace('.', '_')
VersionFolder(a_version) ==
    LET s == toString(a_version) IN <<"versions/v", s[1], s[2], s[3]>>

SourceExt == {"kt", "java"}

----------------------------------------------------------------------------
(* transform_to_embeddable *)

OldImport == <<"import ", "com.intellij">>
NewImport == <<"import ", "org.jetbrains.kotlin.", "com.intellij">>

RECURSIVE ReplaceFirst(_, _, _)
ReplaceFirst(s, old, new) ==
    IF Len(s) < Len(old) THEN s
    ELSE IF SubSeq(s, 1, Len(old)) = old
         THEN new \o SubSeq(s, Len(old) + 1, Len(s))
         ELSE <<Head(s)>> \o ReplaceFirst(Tail(s), old, new)

\* str.replace(old, new): every occurrence, left to right, without overlap
RECURSIVE Replace(_, _, _)
Replace(s, old, new) ==
    IF Len(s) < Len(old) THEN s
    ELSE IF SubSeq(s, 1, Len(old)) = old
         THEN new \o Replace(SubSeq(s, Len(old) + 1, Len(s)), old, new)
         ELSE <<Head(s)>> \o Replace(Tail(s), old, new)

\* glob '/**/*.kt' and '/**/*.java' under the scratch tree
find_sources(tree) ==
    {[dir |-> <<"main">>, name |-> n] :
        n \in {m \in DOMAIN tree.main : m[2] \in SourceExt}}
    \cup
    {[dir |-> <<"this_version">>, name |-> n] :
        n \in {m \in DOMAIN tree.this_version : m[2] \in SourceExt}}
    \cup
    UNION {{[dir |-> f, name |-> n] :
                n \in {m \in DOMAIN tree.versions[f] : m[2] \in SourceExt}} :
           f \in DOMAIN tree.versions}

\* the content of a collected source file
ReadSrc(tree, s) ==
    IF s.dir = <<"main">> THEN tree.main[s.name]
    ELSE IF s.dir = <<"this_version">> THEN tree.this_version[s.name]
    ELSE tree.versions[s.dir][s.name]

\* the scratch tree with file s holding content c
WriteSrc(tree, s, c) ==
    IF s.dir = <<"main">> THEN [tree EXCEPT !.main[s.name] = c]
    ELSE IF s.dir = <<"this_version">> THEN [tree EXCEPT !.this_version[s.name] = c]
    ELSE [tree EXCEPT !.versions[s.dir][s.name] = c]

RECURSIVE transform_to_embeddable(_, _)
transform_to_embeddable(tree, files) ==
    IF files = {} THEN tree
    ELSE LET s == CHOOSE f \in files : TRUE
             content == Replace(ReadSrc(tree, s), OldImport, NewImport)
         IN  transform_to_embeddable(WriteSrc(tree, s, content), files \ {s})

\* compile_standalone's 'lambda srcs: None'
lambda_none(tree, files) == tree

----------------------------------------------------------------------------
(* compile(): the steps that change the scratch tree *)

\* the 'if a_version.lessThanOrEqual(version)' of the overlay loop
IncludedAlways(a_version, version) == TRUE

Included(a_version, version) == lessThanOrEqual(a_version, version)

\* shutil.copytree('src', tmp_src_dir), the two makedirs and extractor.name
setup_tree(base, output) ==
    [present |-> TRUE, main |-> base.main,
     has_this_version |-> TRUE, this_version |-> EmptyDir,
     has_versions |-> TRUE, versions |-> base.versions,
     extractor_name |-> output]

\* the loop over many_versions_versions_asc, from its i-th version on
RECURSIVE overlay_from(_, _, _)
overlay_from(i, tree, version) ==
    IF i > Len(many_versions_versions_asc) THEN tree
    ELSE LET a_version == many_versions_versions_asc[i]
             d == VersionFolder(a_version)
         IN  IF Included(a_version, version) /\ d \in DOMAIN tree.versions
             THEN overlay_from(i + 1,
                      [tree EXCEPT !.this_version = copytree(tree.versions[d], @)],
                      version)
             ELSE overlay_from(i + 1, tree, version)

\* the overlay loop, then shutil.rmtree of the 'versions' folder
resolve_overlay(tree, version_str) ==
    [overlay_from(1, tree, version_string_to_version(version_str))
        EXCEPT !.has_versions = FALSE, !.versions = EmptyDir]

\* the call of compile()'s parameter transform_to_embeddable on srcs
apply_transform(call, tree, files) ==
    IF call.transform = "transform_to_embeddable"
    THEN transform_to_embeddable(tree, files)
    ELSE lambda_none(tree, files)

----------------------------------------------------------------------------
(* The calls of compile() *)

NoCall == [transform |-> "", output |-> <<>>, build_dir |-> <<>>, version_str |-> <<>>]

compile_embeddable_standalone_name(version) ==
    [transform |-> "transform_to_embeddable",
     output |-> <<"codeql-extractor-kotlin-standalone-", version, ".jar">>,
     build_dir |-> <<"build_embeddable_", version>>,
     version_str |-> version]

compile_embeddable(version) ==
    [transform |-> "transform_to_embeddable",
     output |-> <<"codeql-extractor-kotlin-embeddable-", version, ".jar">>,
     build_dir |-> <<"build_embeddable_", version>>,
     version_str |-> version]

compile_standalone(version) ==
    [transform |-> "lambda",
     output |-> <<"codeql-extractor-kotlin-standalone-", version, ".jar">>,
     build_dir |-> <<"build_standalone_", version>>,
     version_str |-> version]

BuildDirs ==
    {compile_standalone(v).build_dir : v \in VersionStrings}
    \cup {compile_embeddable(v).build_dir : v \in VersionStrings}

----------------------------------------------------------------------------
(* The command line *)

None == [some |-> FALSE, str |-> <<>>]
Str(s) == [some |-> TRUE, str |-> s]

\* Python's truth value of an optional string
Truthy(x) == x.some /\ x.str # <<>>

\* '--many' is store_true and '--single' is store_false on the same dest
RECURSIVE store_many(_, _)
store_many(flags, many) ==
    IF flags = <<>> THEN many
    ELSE store_many(Tail(flags), Head(flags) = "--many")

parse_args(av) ==
    [many |-> store_many(av.flags, FALSE),
     single_version |-> av.single_version,
     single_version_embeddable |-> av.embeddable]

NoArgs == [many |-> FALSE, single_version |-> None, single_version_embeddable |-> FALSE]

\* what kotlin_plugin_versions.get_single_version() may return
get_single_version == Registered

\* the loop 'for version in many_versions' of the script
many_calls ==
    [i \in 1..(2 * Len(many_versions)) |->
        IF i % 2 = 1 THEN compile_standalone(many_versions[(i + 1) \div 2])
        ELSE compile_embeddable(many_versions[i \div 2])]

main_many_first(a, single) ==
    IF a.many
    THEN [usage |-> FALSE, calls |-> many_calls]
    ELSE IF Truthy(a.single_version)
    THEN [usage |-> FALSE,
          calls |-> << IF a.single_version_embeddable
                       THEN compile_embeddable(a.single_version.str)
                       ELSE compile_standalone(a.single_version.str) >>]
    ELSE IF a.single_version_embeddable
    THEN [usage |-> TRUE, calls |-> <<>>]
    ELSE [usage |-> FALSE, calls |-> <<compile_standalone(single)>>]

\* the if/elif chain that ends the script; 'single' is get_single_version()
main(a, single) ==
    IF Truthy(a.single_version)
    THEN [usage |-> FALSE,
          calls |-> << IF a.single_version_embeddable
                       THEN compile_embeddable(a.single_version.str)
                       ELSE compile_standalone(a.single_version.str) >>]
    ELSE IF a.single_version_embeddable
    THEN [usage |-> TRUE, calls |-> <<>>]
    ELSE IF a.many
    THEN [usage |-> FALSE, calls |-> many_calls]
    ELSE [usage |-> FALSE, calls |-> <<compile_standalone(single)>>]

\* subprocess.run(cmd, check=True) raises CalledProcessError
never_raises(rc) == FALSE

raises(rc) == rc # 0

\* the status of a process ended by sys.exit(1) or by an uncaught exception
Failure == <<1>>
Success == <<0>>

----------------------------------------------------------------------------
(* Initial states: the inputs of a run *)

MainKt == <<"Main", "kt">>
UtilJava == <<"Util", "java">>
PluginXml == <<"plugin", "xml">>
OverlayPaths == {<<"A", "kt">>, <<"B", "kt">>}

Lexemes == {"import ", "com.intellij", "x"}
Contents == UNION {[1..n -> Lexemes] : n \in 0..MaxLen}

\* what the override files of each known version say
OverrideText == <<"v_1_5_10", "v_1_6_0", "v_1_6_20", "v_1_7_0", "v_1_7_20">>

FolderOf(s) == VersionFolder(version_string_to_version(s))

MarkerOf(f) ==
    OverrideText[CHOOSE i \in 1..Len(KnownVersions) : FolderOf(KnownVersions[i]) = f]

RegisteredFolders == {FolderOf(s) : s \in Registered}

\* each registered version has no override folder, or one with some files
OverrideLayouts ==
    UNION {{[f \in F |-> [n \in P[f] |-> <<MarkerOf(f)>>]] :
                P \in [F -> SUBSET OverlayPaths]} :
           F \in SUBSET RegisteredFolders}

MainFiles(c) ==
    [n \in {MainKt, UtilJava, PluginXml} |->
        IF n = MainKt THEN c ELSE OldImport]

FixedSrc ==
    [main |-> MainFiles(<<"import ", "com.intellij", "x">>),
     versions |-> [f \in {FolderOf(many_versions[1])} |->
                     [n \in {<<"A", "kt">>} |-> <<MarkerOf(f)>> \o OldImport]]]

Argvs ==
    [flags : {<<>>, <<"--many">>, <<"--single">>,
              <<"--many", "--single">>, <<"--single", "--many">>},
     single_version : {None, Str(<<>>)} \cup {Str(s) : s \in VersionStrings},
     embeddable : BOOLEAN]

Envs == [kotlinc : BOOLEAN, javac : BOOLEAN]

CleanDirs == [d \in BuildDirs |-> NoDir]

\* the working directory as an earlier run of one registered target left it
LeftBySuccess(call) ==
    [archives |-> {call.output},
     bdirs |-> [CleanDirs EXCEPT ![call.build_dir] =
                  [exists |-> TRUE, temp_src |-> NoTree, classes |-> FALSE,
                   kotlin_args |-> TRUE, java_args |-> TRUE]]]

LeftByFailure(call) ==
    [archives |-> {},
     bdirs |-> [CleanDirs EXCEPT ![call.build_dir] =
                  [exists |-> TRUE,
                   temp_src |->
                      LET tree == resolve_overlay(setup_tree(FixedSrc, call.output),
                                                  call.version_str)
                      IN  apply_transform(call, tree, find_sources(tree)),
                   classes |-> TRUE,
                   kotlin_args |-> TRUE, java_args |-> FALSE]]]

CleanWorkDir == [archives |-> {}, bdirs |-> CleanDirs]

RegisteredCalls == {many_calls[i] : i \in 1..Len(many_calls)}

WorkDirs ==
    {CleanWorkDir} \cup {LeftBySuccess(c) : c \in RegisteredCalls}
                   \cup {LeftByFailure(c) : c \in RegisteredCalls}

InitWith(av, e, s, w) ==
    /\ argv = av
    /\ env = e
    /\ src = s
    /\ args = NoArgs
    /\ kotlinc = "unset"
    /\ pc = "parse_args"
    /\ todo = <<>>
    /\ cur = NoCall
    /\ srcs = {}
    /\ archives = w.archives
    /\ bdirs = w.bdirs
    /\ exitCode = <<>>
    /\ stderr = ""
    /\ log = <<>>
    /\ start = w

\* any command line, any environment, and a working directory that is clean or
\* is as an earlier run of the script ended with it
Init ==
    \E av \in Argvs, e \in Envs, w \in WorkDirs : InitWith(av, e, FixedSrc, w)

\* builds of one version over every layout of the override folders
InitOverlay ==
    \E s \in VersionStrings, emb \in BOOLEAN, layout \in OverrideLayouts :
        InitWith([flags |-> <<>>, single_version |-> Str(s), embeddable |-> emb],
                 [kotlinc |-> TRUE, javac |-> TRUE],
                 [main |-> MainFiles(OldImport), versions |-> layout],
                 CleanWorkDir)

\* builds of one version over every content of a source file
InitTransform ==
    \E s \in Registered, emb \in BOOLEAN, c \in Contents :
        InitWith([flags |-> <<>>, single_version |-> Str(s), embeddable |-> emb],
                 [kotlinc |-> TRUE, javac |-> TRUE],
                 [main |-> MainFiles(c), versions |-> FixedSrc.versions],
                 CleanWorkDir)

----------------------------------------------------------------------------
(* The script, step by step *)

Exit(status, message) ==
    /\ exitCode' = status
    /\ stderr' = message
    /\ pc' = "exited"

Step(name, rc) == [call |-> cur, step |-> name, rc |-> rc]

\* args = parse_args()
ParseArgs ==
    /\ pc = "parse_args"
    /\ args' = parse_args(argv)
    /\ pc' = "which"
    /\ UNCHANGED <<argv, env, src, kotlinc, todo, cur, srcs, archives, bdirs,
                   exitCode, stderr, log, start>>

FindKotlincUnchecked ==
    /\ pc = "which"
    /\ kotlinc' = IF env.kotlinc THEN "kotlinc" ELSE "None"
    /\ pc' = "main"
    /\ UNCHANGED <<argv, env, src, args, todo, cur, srcs, archives, bdirs,
                   exitCode, stderr, log, start>>

\* kotlinc = shutil.which('kotlinc'), and the exit when there is none
FindKotlinc ==
    /\ pc = "which"
    /\ kotlinc' = IF env.kotlinc THEN "kotlinc" ELSE "None"
    /\ IF kotlinc' = "None"
       THEN Exit(Failure, "no kotlinc found on your PATH")
       ELSE /\ pc' = "main"
            /\ UNCHANGED <<exitCode, stderr>>
    /\ UNCHANGED <<argv, env, src, args, todo, cur, srcs, archives, bdirs,
                   log, start>>

\* the if/elif chain that ends the script
Dispatch ==
    /\ pc = "main"
    /\ \E single \in get_single_version :
          LET m == main(args, single)
          IN  IF m.usage
              THEN /\ Exit(Failure, "--single-version-embeddable requires --single-version")
                   /\ UNCHANGED todo
              ELSE /\ todo' = m.calls
                   /\ pc' = "compile"
                   /\ UNCHANGED <<exitCode, stderr>>
    /\ UNCHANGED <<argv, env, src, args, kotlinc, cur, srcs, archives, bdirs,
                   log, start>>

\* compile(), up to the writing of extractor.name
CompileSetup ==
    /\ pc = "compile"
    /\ todo # <<>>
    /\ cur' = Head(todo)
    /\ todo' = Tail(todo)
    /\ \E found \in BOOLEAN :
          IF ~found
          THEN /\ Exit(Failure, "Cannot find jar file")
               /\ UNCHANGED bdirs
          ELSE /\ bdirs' = [bdirs EXCEPT ![cur'.build_dir] =
                              [@ EXCEPT !.exists = TRUE,
                                        !.temp_src = setup_tree(src, cur'.output)]]
               /\ pc' = "overlay"
               /\ UNCHANGED <<exitCode, stderr>>
    /\ UNCHANGED <<argv, env, src, args, kotlinc, srcs, archives, log, start>>

\* compile(): the overlay loop and the removal of the version folders
ResolveOverlay ==
    /\ pc = "overlay"
    /\ bdirs' = [bdirs EXCEPT ![cur.build_dir].temp_src =
                    resolve_overlay(@, cur.version_str)]
    /\ log' = Append(log, Step("overlay", 0))
    /\ pc' = "transform"
    /\ UNCHANGED <<argv, env, src, args, kotlinc, todo, cur, srcs, archives,
                   exitCode, stderr, start>>

\* compile(): srcs = find_sources(tmp_src_dir); transform_to_embeddable(srcs)
Transform ==
    /\ pc = "transform"
    /\ srcs' = find_sources(bdirs[cur.build_dir].temp_src)
    /\ bdirs' = [bdirs EXCEPT ![cur.build_dir].temp_src =
                    apply_transform(cur, @, srcs')]
    /\ log' = Append(log, Step("transform", 0))
    /\ pc' = "kotlinc"
    /\ UNCHANGED <<argv, env, src, args, kotlinc, todo, cur, archives,
                   exitCode, stderr, start>>

\* compile_to_jar() up to compile_to_dir()'s run of kotlinc
CompileKotlin ==
    /\ pc = "kotlinc"
    /\ bdirs' = [bdirs EXCEPT ![cur.build_dir] =
                    [@ EXCEPT !.classes = TRUE, !.kotlin_args = TRUE]]
    /\ \E rc \in {0, 1} :
          /\ log' = Append(log, Step("kotlinc", rc))
          /\ IF raises(rc)
             THEN Exit(Failure, "Command failed")
             ELSE /\ pc' = "javac"
                  /\ UNCHANGED <<exitCode, stderr>>
    /\ UNCHANGED <<argv, env, src, args, kotlinc, todo, cur, srcs, archives, start>>

\* compile_to_dir(): the run of javac
CompileJava ==
    /\ pc = "javac"
    /\ bdirs' = [bdirs EXCEPT ![cur.build_dir].java_args = TRUE]
    /\ IF ~env.javac
       THEN /\ Exit(Failure, "FileNotFoundError")
            /\ UNCHANGED log
       ELSE \E rc \in {0, 1} :
               /\ log' = Append(log, Step("javac", rc))
               /\ IF raises(rc)
                  THEN Exit(Failure, "Command failed")
                  ELSE /\ pc' = "jar"
                       /\ UNCHANGED <<exitCode, stderr>>
    /\ UNCHANGED <<argv, env, src, args, kotlinc, todo, cur, srcs, archives, start>>

\* compile_to_jar(): the run of jar and shutil.rmtree(class_dir)
Jar ==
    /\ pc = "jar"
    /\ \E rc \in {0, 1} :
          /\ log' = Append(log, Step("jar", rc))
          /\ IF raises(rc)
             THEN /\ Exit(Failure, "Command failed")
                  /\ UNCHANGED <<archives, bdirs>>
             ELSE /\ archives' = archives \cup {cur.output}
                  /\ bdirs' = [bdirs EXCEPT ![cur.build_dir].classes = FALSE]
                  /\ pc' = "cleanup"
                  /\ UNCHANGED <<exitCode, stderr>>
    /\ UNCHANGED <<argv, env, src, args, kotlinc, todo, cur, srcs, start>>

CleanUpNothing ==
    /\ pc = "cleanup"
    /\ log' = Append(log, Step("cleanup", 0))
    /\ pc' = "compile"
    /\ UNCHANGED <<argv, env, src, args, kotlinc, todo, cur, srcs, archives,
                   bdirs, exitCode, stderr, start>>

\* compile(): shutil.rmtree(tmp_src_dir), and the return to the caller
CleanUp ==
    /\ pc = "cleanup"
    /\ bdirs' = [bdirs EXCEPT ![cur.build_dir].temp_src = NoTree]
    /\ log' = Append(log, Step("cleanup", 0))
    /\ pc' = "compile"
    /\ UNCHANGED <<argv, env, src, args, kotlinc, todo, cur, srcs, archives,
                   exitCode, stderr, start>>

\* the end of the script
Finish ==
    /\ pc = "compile"
    /\ todo = <<>>
    /\ Exit(Success, stderr)
    /\ UNCHANGED <<argv, env, src, args, kotlinc, todo, cur, srcs, archives,
                   bdirs, log, start>>

Next ==
    \/ ParseArgs
    \/ FindKotlinc
    \/ Dispatch
    \/ CompileSetup
    \/ ResolveOverlay
    \/ Transform
    \/ CompileKotlin
    \/ CompileJava
    \/ Jar
    \/ CleanUp
    \/ Finish

Spec == Init /\ [][Next]_vars

SpecOverlay == InitOverlay /\ [][Next]_vars

SpecTransform == InitTransform /\ [][Next]_vars

----------------------------------------------------------------------------
(* Vocabulary of the properties *)

Last(s) == s[Len(s)]

\* the scratch tree of the call in progress
Scratch == bdirs[cur.build_dir].temp_src

Target == version_string_to_version(cur.version_str)

\* the overlay loop of the call in progress has run
OverlayDone == cur # NoCall /\ Scratch.present /\ ~Scratch.has_versions

\* the transform step of the call in progress has run
TransformDone ==
    /\ cur # NoCall
    /\ Scratch.present
    /\ \E i \in 1..Len(log) : log[i].call = cur /\ log[i].step = "transform"

\* the registered versions <= the target that override file n
Providers(n) ==
    {r \in Registered :
        /\ lessThanOrEqual(version_string_to_version(r), Target)
        /\ FolderOf(r) \in DOMAIN src.versions
        /\ n \in DOMAIN src.versions[FolderOf(r)]}

Greatest(R) ==
    CHOOSE g \in R : \A r \in R :
        lessThanOrEqual(version_string_to_version(r), version_string_to_version(g))

Mentions(content, lexeme) == \E i \in 1..Len(content) : content[i] = lexeme

\* the files of the scratch tree, whatever their folder
ScratchContents ==
    {Scratch.main[n] : n \in DOMAIN Scratch.main}
    \cup {Scratch.this_version[n] : n \in DOMAIN Scratch.this_version}
    \cup UNION {{Scratch.versions[f][n] : n \in DOMAIN Scratch.versions[f]} :
                f \in DOMAIN Scratch.versions}

Occurrences(p, s) ==
    {i \in 1..Len(s) : i + Len(p) - 1 <= Len(s) /\ SubSeq(s, i, i + Len(p) - 1) = p}

IsNotShade(lexeme) == lexeme # "org.jetbrains.kotlin."

\* the scratch tree of the call in progress as the overlay loop built it from src
Untransformed ==
    [present |-> TRUE,
     main |-> src.main,
     has_this_version |-> TRUE,
     this_version |->
        [n \in {m \in OverlayPaths : Providers(m) # {}} |->
            src.versions[FolderOf(Greatest(Providers(n)))][n]],
     has_versions |-> FALSE,
     versions |-> EmptyDir,
     extractor_name |-> cur.output]

WorkDirUntouched == archives = start.archives /\ bdirs = start.bdirs

NothingStarted ==
    /\ pc \in {"parse_args", "which", "main", "exited"}
    /\ cur = NoCall
    /\ todo = <<>>
    /\ log = <<>>

UsageMessage == "--single-version-embeddable requires --single-version"

Canon == <<"overlay", "transform", "kotlinc", "javac", "jar", "cleanup">>

StepsOf(c) == SelectSeq(log, LAMBDA e : e.call = c)

IsPrefix(s, t) == Len(s) <= Len(t) /\ \A i \in 1..Len(s) : s[i] = t[i]

CompilerFailedAt(i) == log[i].step \in {"kotlinc", "javac"} /\ log[i].rc # 0

----------------------------------------------------------------------------
(* Overlay resolution *)

\* C1: after the overlay resolution of compile(), every file path of the
\* override folder of a registered version r <= the target version is present
\* in the scratch tree's this_version folder, and no file of the override
\* folder of a registered version r > the target is anywhere in the scratch
\* tree (the versions folder is gone).
C1_OverlayPresentUpToTarget ==
    OverlayDone =>
        /\ Scratch.versions = EmptyDir
        /\ \A r \in Registered :
              IF lessThanOrEqual(version_string_to_version(r), Target)
              THEN FolderOf(r) \in DOMAIN src.versions =>
                      DOMAIN src.versions[FolderOf(r)] \subseteq DOMAIN Scratch.this_version
              ELSE \A c \in ScratchContents : ~Mentions(c, MarkerOf(FolderOf(r)))

C1_Witness ==
    /\ OverlayDone
    /\ \E r, q \in Registered :
          /\ lessThanOrEqual(version_string_to_version(r), Target)
          /\ ~lessThanOrEqual(version_string_to_version(q), Target)
          /\ FolderOf(r) \in DOMAIN src.versions
          /\ FolderOf(q) \in DOMAIN src.versions
          /\ src.versions[FolderOf(r)] # EmptyDir
          /\ src.versions[FolderOf(q)] # EmptyDir

\* C2: after the overlay resolution, every file of the this_version folder
\* holds the content of the greatest registered version <= the target that
\* overrides that path, and the folder holds no other file.
C2_GreatestOverrideWins ==
    OverlayDone =>
        /\ DOMAIN Scratch.this_version = {n \in OverlayPaths : Providers(n) # {}}
        /\ \A n \in DOMAIN Scratch.this_version :
              Scratch.this_version[n] = src.versions[FolderOf(Greatest(Providers(n)))][n]

C2_Witness ==
    /\ OverlayDone
    /\ \E n \in DOMAIN Scratch.this_version :
          /\ Cardinality(Providers(n)) >= 2
          /\ Mentions(Scratch.this_version[n], MarkerOf(FolderOf(Greatest(Providers(n)))))

----------------------------------------------------------------------------
(* The embeddable transform *)

\* C7: after the transform step of an embeddable build no collected source
\* file holds the import prefix 'import com.intellij' any more, and each file
\* is its original with 'org.jetbrains.kotlin.' put into every occurrence of
\* the prefix; after the transform step of a standalone build the scratch
\* tree is what the overlay resolution left.
C7_TransformRewritesEveryImport ==
    TransformDone =>
        IF cur.output[1] = "codeql-extractor-kotlin-embeddable-"
        THEN \A s \in srcs :
                LET new == ReadSrc(Scratch, s)
                    old == ReadSrc(Untransformed, s)
                IN  /\ Occurrences(OldImport, new) = {}
                    /\ SelectSeq(new, IsNotShade) = old
                    /\ Len(new) = Len(old) + Cardinality(Occurrences(OldImport, old))
        ELSE Scratch = Untransformed

C7_Witness ==
    /\ TransformDone
    /\ cur.output[1] = "codeql-extractor-kotlin-embeddable-"
    /\ \E s \in srcs :
          /\ Cardinality(Occurrences(OldImport, ReadSrc(Untransformed, s))) = 2
          /\ Cardinality(Occurrences(NewImport, ReadSrc(Scratch, s))) = 2

----------------------------------------------------------------------------
(* Failures *)

\* C3 as stated: a nonzero exit of kotlinc or javac is the last step of the
\* run, the process ends in failure, and no archive file exists at the
\* output path of the target that failed.
C3_NoArchiveAfterCompilerFailure ==
    \A i \in 1..Len(log) :
        CompilerFailedAt(i) =>
            /\ i = Len(log)
            /\ pc = "exited"
            /\ exitCode = Failure
            /\ log[i].call.output \notin archives

\* C3 as amended: a nonzero exit of kotlinc or javac is the last step of the
\* run (no later step, no later target), the process ends in failure, and
\* the run has neither created nor removed an archive at the output path of
\* the target that failed: one is there exactly if one was there before.
C3_FailedTargetWritesNoArchive ==
    \A i \in 1..Len(log) :
        CompilerFailedAt(i) =>
            /\ i = Len(log)
            /\ pc = "exited"
            /\ exitCode = Failure
            /\ log[i].call.output \in archives <=> log[i].call.output \in start.archives
            /\ \A j \in 1..Len(log) : log[j].call = log[i].call => log[j].step # "jar"

C3_Witness ==
    /\ log # <<>>
    /\ CompilerFailedAt(Len(log))
    /\ Last(log).step = "javac"
    /\ Last(log).call.output \in archives
    /\ todo # <<>>

\* C4 as stated: when the Kotlin compiler or the Java compiler is missing,
\* the run never changes the working directory and ends in failure.
C4_MissingCompilerChangesNothing ==
    (~env.kotlinc \/ ~env.javac) =>
        /\ WorkDirUntouched
        /\ pc = "exited" => exitCode = Failure

\* C4 as amended: when the Kotlin compiler is missing the run starts no build
\* target, never changes the working directory and ends in failure with the
\* missing-compiler message; when the Java compiler is missing the run ends
\* in failure too and creates no archive, but only once javac is invoked,
\* after the scratch files of the first target have been written.
C4_MissingKotlincChangesNothing ==
    /\ ~env.kotlinc =>
          /\ WorkDirUntouched
          /\ NothingStarted
          /\ pc = "exited" =>
                exitCode = Failure /\ stderr = "no kotlinc found on your PATH"
    /\ ~env.javac =>
          /\ archives = start.archives
          /\ pc = "exited" => exitCode = Failure
          /\ \A i \in 1..Len(log) : log[i].step \notin {"javac", "jar", "cleanup"}

C4_Witness ==
    /\ ~env.kotlinc
    /\ Truthy(argv.single_version)
    /\ pc = "exited"

\* the flag combinations C5 calls conflicting
Conflicting ==
    \/ \E i, j \in 1..Len(argv.flags) :
          argv.flags[i] = "--many" /\ argv.flags[j] = "--single"
    \/ (\E i \in 1..Len(argv.flags) : argv.flags[i] = "--many") /\ argv.single_version.some
    \/ argv.embeddable /\ ~Truthy(argv.single_version)

EmbeddableWithoutVersion == argv.embeddable /\ ~Truthy(argv.single_version)

\* C5 as stated: with conflicting flags no build target is started and the
\* process ends in failure.
C5_ConflictingFlagsRejected ==
    Conflicting =>
        /\ NothingStarted
        /\ pc = "exited" => exitCode = Failure

\* C5 as amended: the one flag combination that is rejected is
\* --single-version-embeddable without a non-empty --single-version: no build
\* target is started and the process ends in failure.  --many together with
\* --single-version builds the one target of that version, and of --many and
\* --single given together the last one decides.
C5_OnlyEmbeddableWithoutVersionRejected ==
    /\ EmbeddableWithoutVersion =>
          /\ NothingStarted
          /\ pc = "exited" => exitCode = Failure
    /\ stderr = UsageMessage => EmbeddableWithoutVersion
    /\ Truthy(argv.single_version) /\ env.kotlinc
          /\ pc \notin {"parse_args", "which", "main"} =>
          LET calls == (IF cur = NoCall THEN <<>> ELSE <<cur>>) \o todo
          IN  /\ Len(calls) = 1
              /\ calls[1].version_str = argv.single_version.str
              /\ \A i \in 1..Len(log) : log[i].call = calls[1]
    /\ argv.flags # <<>> /\ pc # "parse_args" =>
          args.many = (Last(argv.flags) = "--many")

C5_Witness ==
    /\ \E i \in 1..Len(argv.flags) : argv.flags[i] = "--many"
    /\ Truthy(argv.single_version)
    /\ pc = "exited"
    /\ exitCode = Success
    /\ Len(log) = Len(Canon)

\* C6 as stated: --single-version-embeddable without a non-empty
\* --single-version starts no build target, leaves the working directory as it
\* was, and ends in failure with the usage message.
C6_EmbeddableWithoutVersionUsageError ==
    EmbeddableWithoutVersion =>
        /\ NothingStarted
        /\ WorkDirUntouched
        /\ pc = "exited" => exitCode = Failure /\ stderr = UsageMessage

\* C6 as amended: --single-version-embeddable without a non-empty
\* --single-version, whatever --many and --single say, starts no build target,
\* leaves the working directory as it was, and ends in failure: with the usage
\* message when kotlinc is on the PATH, with the missing-compiler message
\* (the earlier check) when it is not.
C6_EmbeddableWithoutVersionRejected ==
    EmbeddableWithoutVersion =>
        /\ NothingStarted
        /\ WorkDirUntouched
        /\ pc = "exited" =>
              /\ exitCode = Failure
              /\ stderr = IF env.kotlinc THEN UsageMessage
                          ELSE "no kotlinc found on your PATH"

C6_Witness ==
    /\ EmbeddableWithoutVersion
    /\ args.many
    /\ argv.single_version = Str(<<>>)
    /\ pc = "exited"
    /\ stderr = UsageMessage

----------------------------------------------------------------------------
(* The archives of a run *)

\* the successful runs of jar, in order
JarRuns == SelectSeq(log, LAMBDA e : e.step = "jar" /\ e.rc = 0)

Produced == {JarRuns[i].call.output : i \in 1..Len(JarRuns)}

\* C8: a run that ends in success and was asked for one version X without
\* the embeddable flag has run jar once, for
\* codeql-extractor-kotlin-standalone-X.jar; a run in 'many' mode that ends
\* in success has run jar twice for every registered version, once for its
\* standalone and once for its embeddable archive, all of different names;
\* the archives of the working directory are those it had plus these.
C8_ArchivesOfARun ==
    pc = "exited" /\ exitCode = Success =>
        /\ archives = start.archives \cup Produced
        /\ Truthy(argv.single_version) /\ ~argv.embeddable =>
              /\ Len(JarRuns) = 1
              /\ Produced = {<<"codeql-extractor-kotlin-standalone-",
                               argv.single_version.str, ".jar">>}
        /\ ~Truthy(argv.single_version) /\ args.many =>
              /\ Len(JarRuns) = 2 * Len(many_versions)
              /\ Cardinality(Produced) = 2 * Cardinality(Registered)
              /\ Produced =
                    {<<"codeql-extractor-kotlin-standalone-", v, ".jar">> : v \in Registered}
                    \cup
                    {<<"codeql-extractor-kotlin-embeddable-", v, ".jar">> : v \in Registered}

C8_Witness ==
    /\ pc = "exited"
    /\ exitCode = Success
    /\ args.many
    /\ ~Truthy(argv.single_version)
    /\ Cardinality(Produced) = 2 * NumVersions

----------------------------------------------------------------------------
(* The order of the steps *)

\* a target has been built and the next one is about to begin
NextTargetStarts == pc = "compile" /\ cur # NoCall /\ todo # <<>>

\* C9 as stated: when the next target's build starts, nothing of the previous
\* target's build directory remains.
C9_NothingOfPreviousTargetRemains ==
    NextTargetStarts => bdirs[cur.build_dir] = NoDir

\* C9 as amended: targets are built one after the other, and when the next
\* target's build starts the temp source copy and the class-output directory
\* of every target built before are gone, while the build directory of each
\* and its two argument files remain.
C9_ScratchTreeAndClassesRemoved ==
    /\ \A i, j, k \in 1..Len(log) :
          i < j /\ j < k /\ log[i].call = log[k].call => log[j].call = log[i].call
    /\ NextTargetStarts =>
          \A i \in 1..Len(log) :
             LET d == bdirs[log[i].call.build_dir]
             IN  /\ ~d.temp_src.present
                 /\ ~d.classes
                 /\ d.exists
                 /\ d.kotlin_args
                 /\ d.java_args

C9_Witness ==
    /\ NextTargetStarts
    /\ Len(log) = 2 * Len(Canon)

\* C10: the steps logged for a build target are a prefix of overlay,
\* transform, kotlinc, javac, jar, clean-up, each once; javac runs only after
\* kotlinc exited zero and jar only after javac exited zero; a step that
\* exits nonzero is the last step of the run.
C10_LinearPipeline ==
    /\ \A i \in 1..Len(log) :
          /\ IsPrefix([k \in 1..Len(StepsOf(log[i].call)) |-> StepsOf(log[i].call)[k].step],
                      Canon)
          /\ log[i].rc # 0 => i = Len(log)
    /\ \A j \in 1..Len(log) :
          /\ log[j].step = "javac" =>
                \E i \in 1..(j - 1) :
                    log[i].call = log[j].call /\ log[i].step = "kotlinc" /\ log[i].rc = 0
          /\ log[j].step = "jar" =>
                \E i \in 1..(j - 1) :
                    log[i].call = log[j].call /\ log[i].step = "javac" /\ log[i].rc = 0

C10_Witness ==
    /\ Len(log) > Len(Canon)
    /\ Last(log).step = "jar"
    /\ Last(log).rc # 0
    /\ pc = "exited"

====
